---- MODULE Spec2Model ----
(***************************************************************************)
(* Model of validate_daily_cost.py: the DailyCostValidator class and main. *)
(*                                                                         *)
(* Text is a sequence of lexemes.  A lexeme is one character of the file,  *)
(* except for two words that the regular expressions match as a unit:      *)
(*   "H"  the text  resource "coder_metadata" "<name>"  (what the prefix   *)
(*        resource\s+"coder_metadata"\s+"([^"]+)"  of the block pattern    *)
(*        matches),                                                        *)
(*   "D"  the word  daily_cost.                                            *)
(* Every other lexeme is a single character.                               *)
(***************************************************************************)
EXTENDS Integers, Sequences, FiniteSets, TLC

\* ------------------------------------------------------------------ bounds
MaxFiles == 2
MaxBlocks == 3
MaxFileBlocks == 5
MaxSegs == 5
MaxTokenLen == 5

\* ------------------------------------------------------- lexical classes
Whitespace == {" ", "\t", "\n"}
QuoteChars == {"\"", "'"}
Digits == {"0", "5"}
None == <<"None">>

VARIABLES argv_len, path_exists, fs, pc, terraform_files, next_file,
          all_resources, issues, resources_checked, resources_with_issues,
          report, printed, retval, exit_code

vars == <<argv_len, path_exists, fs, pc, terraform_files, next_file,
          all_resources, issues, resources_checked, resources_with_issues,
          report, printed, retval, exit_code>>

\* ------------------------------------------------------ sequence helpers
RECURSIVE Flatten(_)
Flatten(ss) == IF ss = <<>> THEN <<>> ELSE Head(ss) \o Flatten(Tail(ss))

SeqsUpTo(S, n) == UNION {[1..k -> S] : k \in 0..n}

\* --------------------------------------------------- regular expressions
\* first index >= p whose lexeme is not whitespace (Len+1 if none): \s*
RECURSIVE SkipWs(_, _)
SkipWs(s, p) ==
  IF p <= Len(s) /\ s[p] \in Whitespace THEN SkipWs(s, p + 1) ELSE p

\* first index >= p whose lexeme is whitespace (Len+1 if none): [^\s\n]+
RECURSIVE SkipNonWs(_, _)
SkipNonWs(s, p) ==
  IF p <= Len(s) /\ s[p] \notin Whitespace THEN SkipNonWs(s, p + 1) ELSE p

\* the greedy body  (.+)  of a pattern that runs to the last closing brace
LastClose(s, p) ==
  IF \E j \in p..Len(s) : s[j] = "}"
  THEN CHOOSE j \in p..Len(s) : s[j] = "}" /\ \A k \in (j+1)..Len(s) : s[k] # "}"
  ELSE Len(s) + 1

\* first index >= p whose lexeme is a closing brace (Len+1 if none): [^}]+
RECURSIVE SkipNonClose(_, _)
SkipNonClose(s, p) ==
  IF p <= Len(s) /\ s[p] # "}" THEN SkipNonClose(s, p + 1) ELSE p

\* one attempt of the block pattern at position p
MatchAt(content, p) ==
  LET q == SkipWs(content, p + 1)
      r == SkipNonClose(content, q + 1)
  IN  IF /\ content[p] = "H"
         /\ q <= Len(content)
         /\ content[q] = "{"
         /\ r <= Len(content)
         /\ r > q + 1
      THEN [ok |-> TRUE, start |-> p, open |-> q, close |-> r]
      ELSE [ok |-> FALSE, start |-> p, open |-> 0, close |-> 0]

\* re.finditer: leftmost, non-overlapping matches from position p on
RECURSIVE FindIter(_, _)
FindIter(content, p) ==
  IF p > Len(content) THEN <<>>
  ELSE LET m == MatchAt(content, p)
       IN  IF m.ok THEN <<m>> \o FindIter(content, m.close + 1)
           ELSE FindIter(content, p + 1)

\* one attempt of  daily_cost\s*=\s*([^\s\n]+)  at position p of a body
DailyCostAt(body, p) ==
  LET j == SkipWs(body, p + 1)
      k == SkipWs(body, j + 1)
      e == SkipNonWs(body, k)
  IN  IF /\ body[p] = "D"
         /\ j <= Len(body)
         /\ body[j] = "="
         /\ k <= Len(body)
      THEN [found |-> TRUE, value |-> SubSeq(body, k, e - 1)]
      ELSE [found |-> FALSE, value |-> None]

\* re.search: the leftmost match from position p on
RECURSIVE SearchDailyCost(_, _)
SearchDailyCost(body, p) ==
  IF p > Len(body) THEN [found |-> FALSE, value |-> None]
  ELSE LET m == DailyCostAt(body, p)
       IN  IF m.found THEN m ELSE SearchDailyCost(body, p + 1)

\* str.strip(): drop leading and trailing whitespace
RECURSIVE StripWs(_)
StripWs(s) ==
  IF s = <<>> THEN s
  ELSE IF Head(s) \in Whitespace THEN StripWs(Tail(s))
  ELSE IF s[Len(s)] \in Whitespace THEN StripWs(SubSeq(s, 1, Len(s) - 1))
  ELSE s

\* ----------------------------------------------------- _get_line_number
RECURSIVE CountNewlines(_)
CountNewlines(s) ==
  IF s = <<>> THEN 0
  ELSE (IF Head(s) = "\n" THEN 1 ELSE 0) + CountNewlines(Tail(s))

get_line_number_zero_based(content, position) ==
  CountNewlines(SubSeq(content, 1, position))

\* position is the 0-based offset of the match start
get_line_number(content, position) ==
  CountNewlines(SubSeq(content, 1, position)) + 1

\* ------------------------------------------ parse_coder_metadata_resources
resource_info(file_path, content, m) ==
  LET resource_block == SubSeq(content, m.open + 1, m.close - 1)
      daily_cost_match == SearchDailyCost(resource_block, 1)
  IN  [file |-> file_path,
       resource_name |-> "name",
       resource_block |-> StripWs(resource_block),
       has_daily_cost |-> daily_cost_match.found,
       daily_cost_value |-> daily_cost_match.value,
       line_number |-> get_line_number(content, m.start - 1)]

RECURSIVE ResourcesOf(_, _, _)
ResourcesOf(file_path, content, matches) ==
  IF matches = <<>> THEN <<>>
  ELSE <<resource_info(file_path, content, Head(matches))>>
       \o ResourcesOf(file_path, content, Tail(matches))

parse_error_issue(file_path) ==
  [type |-> "parse_error", file |-> file_path, error |-> "read failed"]

\* the value returned and the issues appended by one call
parse_failure_counts_as_resource(file_path, entry) ==
  IF entry.readable
  THEN [resources |-> ResourcesOf(file_path, entry.content,
                                  FindIter(entry.content, 1)),
        new_issues |-> <<>>]
  ELSE [resources |-> <<[file |-> file_path, resource_name |-> "name",
                         resource_block |-> <<>>, has_daily_cost |-> FALSE,
                         daily_cost_value |-> None, line_number |-> 1]>>,
        new_issues |-> <<parse_error_issue(file_path)>>]

parse_coder_metadata_resources(file_path, entry) ==
  IF entry.readable
  THEN [resources |-> ResourcesOf(file_path, entry.content,
                                  FindIter(entry.content, 1)),
        new_issues |-> <<>>]
  ELSE [resources |-> <<>>,
        new_issues |-> <<parse_error_issue(file_path)>>]

\* ------------------------------------------------ validate_daily_cost_value
\* removal of one pair of matching quotes around the value
strip_one_layer(value) ==
  IF /\ Len(value) >= 2
     /\ value[1] \in QuoteChars
     /\ value[Len(value)] = value[1]
  THEN SubSeq(value, 2, Len(value) - 1)
  ELSE value

\* str.strip('"\''): drop every leading and trailing quote character
RECURSIVE strip_quotes(_)
strip_quotes(value) ==
  IF value = <<>> THEN value
  ELSE IF Head(value) \in QuoteChars THEN strip_quotes(Tail(value))
  ELSE IF value[Len(value)] \in QuoteChars
       THEN strip_quotes(SubSeq(value, 1, Len(value) - 1))
  ELSE value

\* float(): surrounding whitespace is ignored; an optional sign, then digits
\* with at most one decimal point and at least one digit.  Any other lexeme
\* raises ValueError.
parse_float(text) ==
  LET t == StripWs(text)
      neg == t # <<>> /\ Head(t) = "-"
      m == IF neg THEN Tail(t) ELSE t
      idx == 1..Len(m)
      wellformed == /\ \A i \in idx : m[i] \in Digits \cup {"."}
                    /\ Cardinality({i \in idx : m[i] = "."}) <= 1
                    /\ \E i \in idx : m[i] \in Digits
  IN  [ok |-> wellformed,
       positive |-> wellformed /\ ~neg /\ \E i \in idx : m[i] = "5"]

validate_daily_cost_value(value) ==
  IF value = None \/ value = <<>> THEN FALSE
  ELSE LET num_value == parse_float(strip_quotes(value))
       IN  num_value.ok /\ num_value.positive

\* ------------------------------------------------------ validate_resources
missing_issue(resource) ==
  [type |-> "missing_daily_cost", severity |-> "error",
   file |-> resource.file, resource_name |-> resource.resource_name,
   line_number |-> resource.line_number,
   message |-> <<"missing", resource.resource_name>>]

invalid_issue(resource) ==
  [type |-> "invalid_daily_cost", severity |-> "error",
   file |-> resource.file, resource_name |-> resource.resource_name,
   line_number |-> resource.line_number,
   daily_cost_value |-> resource.daily_cost_value,
   message |-> <<"invalid", resource.resource_name, resource.daily_cost_value>>]

\* one iteration of the loop, applied to the aggregator v
validate_one_double_report(v, resource) ==
  IF ~resource.has_daily_cost
  THEN [issues |-> v.issues \o <<missing_issue(resource), invalid_issue(resource)>>,
        resources_checked |-> v.resources_checked + 1,
        resources_with_issues |-> v.resources_with_issues + 1]
  ELSE IF ~validate_daily_cost_value(resource.daily_cost_value)
  THEN [issues |-> Append(v.issues, invalid_issue(resource)),
        resources_checked |-> v.resources_checked + 1,
        resources_with_issues |-> v.resources_with_issues + 1]
  ELSE [v EXCEPT !.resources_checked = @ + 1]

validate_one(v, resource) ==
  IF ~resource.has_daily_cost
  THEN [issues |-> Append(v.issues, missing_issue(resource)),
        resources_checked |-> v.resources_checked + 1,
        resources_with_issues |-> v.resources_with_issues + 1]
  ELSE IF ~validate_daily_cost_value(resource.daily_cost_value)
  THEN [issues |-> Append(v.issues, invalid_issue(resource)),
        resources_checked |-> v.resources_checked + 1,
        resources_with_issues |-> v.resources_with_issues + 1]
  ELSE [v EXCEPT !.resources_checked = @ + 1]

RECURSIVE validate_resources(_, _)
validate_resources(v, resources) ==
  IF resources = <<>> THEN v
  ELSE validate_resources(validate_one(v, Head(resources)), Tail(resources))

\* --------------------------------------------------------- generate_report
DigitChar == <<"0", "1", "2", "3", "4", "5", "6", "7", "8", "9">>

\* the decimal digits of a natural number
RECURSIVE DecStr(_)
DecStr(n) ==
  IF n < 10 THEN <<DigitChar[n + 1]>>
  ELSE Append(DecStr(n \div 10), DigitChar[(n % 10) + 1])

\* f"{num / den * 100:.1f}": tenths of a percent, rounded half to even
Tenths(num, den) ==
  LET n == 1000 * num
      q == n \div den
      r == n % den
  IN  IF 2 * r > den \/ (2 * r = den /\ q % 2 = 1) THEN q + 1 ELSE q

Format1f(num, den) ==
  LET t == Tenths(num, den)
  IN  DecStr(t \div 10) \o <<".">> \o DecStr(t % 10)

compliance_rate_of_issues(checked, with_issues) ==
  IF checked > 0
  THEN Format1f(with_issues, checked) \o <<"%">>
  ELSE <<"0", "%">>

compliance_rate(checked, with_issues) ==
  IF checked > 0
  THEN Format1f(checked - with_issues, checked) \o <<"%">>
  ELSE <<"0", "%">>

NoReport ==
  [total_resources_checked |-> 0, resources_with_issues |-> 0,
   compliance_rate |-> <<>>, issues |-> <<>>, status |-> "unset"]

generate_report(iss, checked, with_issues) ==
  [total_resources_checked |-> checked,
   resources_with_issues |-> with_issues,
   compliance_rate |-> compliance_rate(checked, with_issues),
   issues |-> iss,
   status |-> IF with_issues = 0 THEN "PASS" ELSE "FAIL"]

\* ------------------------------------------------------------ print_report
\* The lines printed for one issue; issue['message'] raises KeyError when the
\* issue has no such key, after the lines before it were printed.
issue_lines(issue) ==
  LET opt(key, line) == IF key \in DOMAIN issue THEN <<line>> ELSE <<>>
      before == <<"Type", "File">> \o opt("resource_name", "Resource")
                \o opt("line_number", "Line") \o opt("daily_cost_value", "Value")
  IN  IF "message" \in DOMAIN issue
      THEN [raised |-> FALSE, lines |-> before \o <<"Message", "">>]
      ELSE [raised |-> TRUE, lines |-> before]

RECURSIVE print_issues(_)
print_issues(iss) ==
  IF iss = <<>> THEN [raised |-> FALSE, lines |-> <<>>]
  ELSE LET h == issue_lines(Head(iss))
       IN  IF h.raised THEN h
           ELSE LET t == print_issues(Tail(iss))
                IN  [raised |-> t.raised, lines |-> h.lines \o t.lines]

print_report(rep) ==
  LET head == <<"banner", "title", "banner", "Status", "Resources Checked",
                "Resources with Issues", "Compliance Rate", "">>
      body == print_issues(rep.issues)
  IN  IF rep.issues # <<>>
      THEN IF body.raised
           THEN [raised |-> TRUE,
                 lines |-> head \o <<"ISSUES FOUND", "rule">> \o body.lines]
           ELSE [raised |-> FALSE,
                 lines |-> head \o <<"ISSUES FOUND", "rule">> \o body.lines
                           \o <<"closing banner">>]
      ELSE [raised |-> FALSE,
            lines |-> head \o <<"all compliant", "", "closing banner">>]

\* ------------------------------------------------------- the scanned tree
\* A directory entry: the suffix of its name, whether open/read succeeds, and
\* its text.
Entry(suffix, readable, content) ==
  [suffix |-> suffix, readable |-> readable, content |-> content]

\* resource blocks a configuration file is made of
GoodBlock == <<"H", " ", "{", "\n", "D", " ", "=", " ", "5", "\n", "}", "\n">>
MissingBlock == <<"H", " ", "{", "\n", "}", "\n">>
InvalidBlock == <<"H", " ", "{", "\n", "D", " ", "=", " ", "\"", "0", "\"", "\n", "}", "\n">>
Blocks == {GoodBlock, MissingBlock, InvalidBlock}

\* the entries made of the blocks bs: a readable .tf file, and for one block a
\* .tfvars file and a file with another suffix; with no block, a .tf file
\* whose read fails
EntriesWith(bs) ==
  {Entry(".tf", TRUE, Flatten(bs))}
  \cup (IF bs = <<>> THEN {Entry(".tf", FALSE, <<>>)} ELSE {})
  \cup (IF Len(bs) = 1
        THEN {Entry(".tfvars", TRUE, Flatten(bs)), Entry(".txt", TRUE, Flatten(bs))}
        ELSE {})

\* the trees of at most n files holding at most b blocks altogether
RECURSIVE Directories(_, _)
Directories(n, b) ==
  IF n = 0 THEN {<<>>}
  ELSE {<<>>} \cup
       UNION {{<<e>> \o d : e \in EntriesWith(bs), d \in Directories(n - 1, b - Len(bs))}
              : bs \in SeqsUpTo(Blocks, b)}

\* trees of one file of at most MaxFileBlocks blocks
SingleFile == {<<Entry(".tf", TRUE, Flatten(bs))>> : bs \in SeqsUpTo(Blocks, MaxFileBlocks)}

\* ------------------------------------------------------------------- main
Init ==
  /\ argv_len \in 1..3
  /\ path_exists \in BOOLEAN
  /\ fs \in (IF argv_len = 2 /\ path_exists
             THEN Directories(MaxFiles, MaxBlocks) \cup SingleFile
             ELSE {<<>>})
  /\ pc = "main"
  /\ terraform_files = <<>>
  /\ next_file = 1
  /\ all_resources = <<>>
  /\ issues = <<>>
  /\ resources_checked = 0
  /\ resources_with_issues = 0
  /\ report = NoReport
  /\ printed = <<>>
  /\ retval = -1
  /\ exit_code = -1

\* main, up to the call of run_validation
Main ==
  /\ pc = "main"
  /\ IF argv_len # 2
     THEN /\ printed' = printed \o <<"Usage", "Example">>
          /\ exit_code' = 1
          /\ pc' = "exited"
     ELSE IF ~path_exists
     THEN /\ printed' = Append(printed, "Error")
          /\ exit_code' = 1
          /\ pc' = "exited"
     ELSE /\ printed' = printed
          /\ exit_code' = exit_code
          /\ pc' = "scan"
  /\ UNCHANGED <<argv_len, path_exists, fs, terraform_files, next_file,
                 all_resources, issues, resources_checked,
                 resources_with_issues, report, retval>>

\* scan_terraform_files: the paths (indices into fs) with a matching suffix
RECURSIVE scan_terraform_files(_, _)
scan_terraform_files(dir, i) ==
  IF i > Len(dir) THEN <<>>
  ELSE (IF dir[i].suffix \in {".tf", ".tfvars"} THEN <<i>> ELSE <<>>)
       \o scan_terraform_files(dir, i + 1)

Scan ==
  /\ pc = "scan"
  /\ terraform_files' = scan_terraform_files(fs, 1)
  /\ printed' = printed \o <<"Scanning directory", "Found files">>
  /\ next_file' = 1
  /\ all_resources' = <<>>
  /\ pc' = IF terraform_files' = <<>> THEN "validate" ELSE "parse"
  /\ UNCHANGED <<argv_len, path_exists, fs, issues, resources_checked,
                 resources_with_issues, report, retval, exit_code>>

\* one iteration of the loop over terraform_files
ParseFile ==
  /\ pc = "parse"
  /\ next_file <= Len(terraform_files)
  /\ LET file_path == terraform_files[next_file]
         r == parse_coder_metadata_resources(file_path, fs[file_path])
     IN  /\ all_resources' = all_resources \o r.resources
         /\ issues' = issues \o r.new_issues
  /\ next_file' = next_file + 1
  /\ pc' = IF next_file' > Len(terraform_files) THEN "validate" ELSE "parse"
  /\ UNCHANGED <<argv_len, path_exists, fs, terraform_files,
                 resources_checked, resources_with_issues, report, printed,
                 retval, exit_code>>

ValidateResources ==
  /\ pc = "validate"
  /\ printed' = Append(printed, "Found resources")
  /\ LET v == validate_resources(
                [issues |-> issues, resources_checked |-> resources_checked,
                 resources_with_issues |-> resources_with_issues],
                all_resources)
     IN  /\ issues' = v.issues
         /\ resources_checked' = v.resources_checked
         /\ resources_with_issues' = v.resources_with_issues
  /\ pc' = "report"
  /\ UNCHANGED <<argv_len, path_exists, fs, terraform_files, next_file,
                 all_resources, report, retval, exit_code>>

GenerateReport ==
  /\ pc = "report"
  /\ report' = generate_report(issues, resources_checked, resources_with_issues)
  /\ pc' = "print"
  /\ UNCHANGED <<argv_len, path_exists, fs, terraform_files, next_file,
                 all_resources, issues, resources_checked,
                 resources_with_issues, printed, retval, exit_code>>

\* print_report; an exception it raises is caught nowhere, so the interpreter
\* prints the traceback and the process ends with status 1
PrintReport ==
  /\ pc = "print"
  /\ LET p == print_report(report)
     IN  /\ printed' = printed \o p.lines
         /\ pc' = IF p.raised THEN "crashed" ELSE "return"
         /\ exit_code' = IF p.raised THEN 1 ELSE exit_code
  /\ UNCHANGED <<argv_len, path_exists, fs, terraform_files, next_file,
                 all_resources, issues, resources_checked,
                 resources_with_issues, report, retval>>

\* the return of run_validation and sys.exit(exit_code) in main
exit_status(rep) == IF rep.status = "PASS" THEN 0 ELSE 1

ReturnStatus ==
  /\ pc = "return"
  /\ retval' = exit_status(report)
  /\ exit_code' = retval'
  /\ pc' = "exited"
  /\ UNCHANGED <<argv_len, path_exists, fs, terraform_files, next_file,
                 all_resources, issues, resources_checked,
                 resources_with_issues, report, printed>>

Next ==
  \/ Main
  \/ Scan
  \/ ParseFile
  \/ ValidateResources
  \/ GenerateReport
  \/ PrintReport
  \/ ReturnStatus

Spec == Init /\ [][Next]_vars

\* ------------------------------------------- extraction from a single file
\* pieces a file text is built from
Segments ==
  {<<"H">>, <<"H", "{">>, <<"{">>, <<"}">>, <<"\n">>,
   <<"D", "=", "5">>, <<"D", "=", "0">>}

Texts == {Flatten(ss) : ss \in SeqsUpTo(Segments, MaxSegs)}

\* main was called on an existing directory holding one configuration file
InitExtract ==
  /\ argv_len = 2
  /\ path_exists = TRUE
  /\ fs \in {<<Entry(".tf", TRUE, text)>> : text \in Texts}
  /\ pc = "scan"
  /\ terraform_files = <<>>
  /\ next_file = 1
  /\ all_resources = <<>>
  /\ issues = <<>>
  /\ resources_checked = 0
  /\ resources_with_issues = 0
  /\ report = NoReport
  /\ printed = <<>>
  /\ retval = -1
  /\ exit_code = -1

NextExtract ==
  \/ Scan
  \/ ParseFile
  \/ ValidateResources
  \/ GenerateReport
  \/ PrintReport
  \/ ReturnStatus

SpecExtract == InitExtract /\ [][NextExtract]_vars

\* ------------------------------------------- validation of one token value
TokenChars == {"\"", "'", "5", "0", "-", ".", "a"}

Tokens == SeqsUpTo(TokenChars, MaxTokenLen)

\* validate_resources called on a fresh validator with one resource record
\* that carries the token
TokenResource(token) ==
  [file |-> 1, resource_name |-> "name", resource_block |-> <<>>,
   has_daily_cost |-> TRUE, daily_cost_value |-> token, line_number |-> 1]

InitToken ==
  /\ argv_len = 2
  /\ path_exists = TRUE
  /\ fs = <<>>
  /\ pc = "validate"
  /\ terraform_files = <<>>
  /\ next_file = 1
  /\ all_resources \in {<<TokenResource(token)>> : token \in Tokens}
  /\ issues = <<>>
  /\ resources_checked = 0
  /\ resources_with_issues = 0
  /\ report = NoReport
  /\ printed = <<>>
  /\ retval = -1
  /\ exit_code = -1

NextToken ==
  \/ ValidateResources
  \/ GenerateReport
  \/ PrintReport
  \/ ReturnStatus

SpecToken == InitToken /\ [][NextToken]_vars

\* ------------------------------------------------------ shared vocabulary
Validated == pc \in {"report", "print", "return", "crashed", "exited"}
Reported == report.status # "unset"
Ended == pc \in {"crashed", "exited"}
ValidInvocation == argv_len = 2 /\ path_exists

CountWhere(seq, P(_)) == Cardinality({i \in 1..Len(seq) : P(seq[i])})

IsParseError(issue) == issue.type = "parse_error"
IsResourceIssue(issue) == issue.type # "parse_error"

\* ------------------------------------------------------------------ claims

\* C1: the report's status is FAIL exactly when resources_with_issues > 0 and
\* PASS otherwise, and run_validation returns 0 exactly when that status is
\* PASS and 1 otherwise.
C1_StatusAndReturn ==
  /\ Reported =>
       /\ report.status \in {"PASS", "FAIL"}
       /\ (report.status = "FAIL") <=> (resources_with_issues > 0)
  /\ (Ended /\ ValidInvocation) =>
       /\ (retval = 0) <=> (report.status = "PASS")
       /\ (retval = 1) <=> (report.status # "PASS")

\* C2: every run on an existing directory, failed reads included, prints one
\* complete block per recorded issue and then the closing banner, and ends
\* with status 0 when the report says PASS and 1 when it says FAIL.
C2_RunCompletes ==
  (Ended /\ ValidInvocation) =>
    /\ pc = "exited"
    /\ CountWhere(printed, LAMBDA line : line = "Message") = Len(issues)
    /\ printed # <<>> /\ printed[Len(printed)] = "closing banner"
    /\ exit_code = (IF report.status = "PASS" THEN 0 ELSE 1)

\* C8: with a wrong argument count or a path that does not exist main ends
\* with status 1 and nothing is discovered, read, validated or recorded; every
\* other invocation runs the validation and ends with the status that
\* run_validation returned.
C8_MainExit ==
  /\ ~ValidInvocation =>
       /\ pc \in {"main", "exited"}
       /\ pc = "exited" => exit_code = 1
       /\ terraform_files = <<>> /\ all_resources = <<>> /\ issues = <<>>
       /\ resources_checked = 0 /\ resources_with_issues = 0
       /\ report = NoReport
  /\ (ValidInvocation /\ Ended) =>
       /\ retval \in {0, 1}
       /\ exit_code = retval
       /\ Len(all_resources) = resources_checked

\* the resources a run collects from the files of a tree, in scan order
RECURSIVE CollectedFrom(_, _)
CollectedFrom(dir, paths) ==
  IF paths = <<>> THEN <<>>
  ELSE parse_coder_metadata_resources(Head(paths), dir[Head(paths)]).resources
       \o CollectedFrom(dir, Tail(paths))

\* the final counters of a run over a tree
CountersOf(dir) ==
  LET v == validate_resources(
             [issues |-> <<>>, resources_checked |-> 0, resources_with_issues |-> 0],
             CollectedFrom(dir, scan_terraform_files(dir, 1)))
  IN  <<v.resources_checked, v.resources_with_issues>>

ReadableOnly(dir) == SelectSeq(dir, LAMBDA e : e.readable)

Flagged(r) == ~r.has_daily_cost \/ ~validate_daily_cost_value(r.daily_cost_value)

FailedReads ==
  {k \in 1..(next_file - 1) : k <= Len(terraform_files) /\ ~fs[terraform_files[k]].readable}

C3_FailedReadStep ==
  (pc = "parse" /\ ~fs[terraform_files[next_file]].readable) =>
    /\ Len(issues') = Len(issues) + 1
    /\ SubSeq(issues', 1, Len(issues)) = issues
    /\ issues'[Len(issues')].type = "parse_error"
    /\ issues'[Len(issues')].file = terraform_files[next_file]
    /\ all_resources' = all_resources
    /\ resources_checked' = resources_checked
    /\ resources_with_issues' = resources_with_issues

C3_OtherFilesScanned ==
  /\ (ValidInvocation /\ pc \notin {"main", "scan", "parse"}) =>
       \A i \in DOMAIN fs :
         CountWhere(all_resources, LAMBDA r : r.file = i) =
           (IF fs[i].readable /\ fs[i].suffix \in {".tf", ".tfvars"}
            THEN Len(FindIter(fs[i].content, 1)) ELSE 0)
  /\ Validated =>
       /\ resources_checked = Len(all_resources)
       /\ <<resources_checked, resources_with_issues>> = CountersOf(ReadableOnly(fs))

\* C3: a failed read appends exactly one parse_error issue for that file,
\* yields no resources and leaves both counters unchanged; every other file
\* is still extracted and validated, so the final counters are those of a run
\* over the readable files alone.
C3_ParseErrorIsolated == []C3_OtherFilesScanned /\ [][C3_FailedReadStep]_vars

C3_Witness ==
  /\ Validated
  /\ \E i \in DOMAIN fs : ~fs[i].readable /\ fs[i].suffix = ".tf"
  /\ \E i \in DOMAIN fs : fs[i].readable /\ Len(FindIter(fs[i].content, 1)) >= 2
  /\ CountWhere(issues, IsParseError) = 1
  /\ resources_checked >= 2
  /\ resources_with_issues >= 1

C7_IssueAccounting ==
  /\ Len(issues) = CountWhere(issues, IsParseError) + resources_with_issues
  /\ CountWhere(issues, IsParseError) = Cardinality(FailedReads)
  /\ resources_with_issues <= resources_checked
  /\ Validated =>
       LET raised == SelectSeq(issues, IsResourceIssue)
           flagged == SelectSeq(all_resources, Flagged)
       IN  /\ Len(raised) = Len(flagged)
           /\ \A k \in 1..Len(raised) :
                /\ raised[k].file = flagged[k].file
                /\ raised[k].line_number = flagged[k].line_number
                /\ raised[k].resource_name = flagged[k].resource_name

C7_AppendOnly ==
  /\ Len(issues') >= Len(issues)
  /\ SubSeq(issues', 1, Len(issues)) = issues

\* C7: in every state the issue list holds exactly one issue per failed read
\* plus exactly one per flagged resource, resources_with_issues never exceeds
\* resources_checked, and an issue once appended is never removed or changed.
C7_OneIssuePerProblem == []C7_IssueAccounting /\ [][C7_AppendOnly]_vars

C7_Witness ==
  /\ Validated
  /\ CountWhere(issues, IsParseError) >= 1
  /\ resources_with_issues >= 2
  /\ resources_checked > resources_with_issues

\* C6: compliance_rate is (checked - issues) / checked * 100 with one decimal
\* and a percent sign when checked > 0, and exactly "0%" with status PASS when
\* checked = 0; no matching file gives 0 / PASS / "0%", only compliant
\* resources give PASS / "100.0%", 3 compliant and 2 non-compliant give
\* 2 / "60.0%" / FAIL / exit 1.
C6_ComplianceRate ==
  Reported =>
    LET c == report.total_resources_checked
        i == report.resources_with_issues
        rate == report.compliance_rate
    IN  /\ c = resources_checked /\ i = resources_with_issues /\ i <= c
        /\ c = 0 => rate = <<"0", "%">> /\ report.status = "PASS"
        /\ terraform_files = <<>> => c = 0
        /\ c > 0 =>
             \E t \in 0..1000 :
               /\ rate = DecStr(t \div 10) \o <<".">> \o DecStr(t % 10) \o <<"%">>
               /\ 2 * (t * c - 1000 * (c - i)) <= c
               /\ 2 * (1000 * (c - i) - t * c) <= c
        /\ (c > 0 /\ i = 0) =>
             /\ rate = <<"1", "0", "0", ".", "0", "%">>
             /\ report.status = "PASS"
        /\ (c = 5 /\ i = 2) =>
             /\ rate = <<"6", "0", ".", "0", "%">>
             /\ report.status = "FAIL"
             /\ Ended => exit_code = 1

C6_Witness ==
  /\ pc = "exited"
  /\ resources_checked = 5
  /\ resources_with_issues = 2
  /\ report.compliance_rate = <<"6", "0", ".", "0", "%">>
  /\ report.status = "FAIL"
  /\ exit_code = 1

\* ---------------------------------------------------- claims on one token
Token == all_resources[1].daily_cost_value

\* the token without its leading and trailing quote characters
AllQuotesRemoved(tok) ==
  LET inner == {i \in 1..Len(tok) : tok[i] \notin QuoteChars}
  IN  IF inner = {} THEN <<>>
      ELSE SubSeq(tok, CHOOSE i \in inner : \A j \in inner : i <= j,
                       CHOOSE i \in inner : \A j \in inner : i >= j)

Accepted == issues = <<>> /\ resources_with_issues = 0

Rejected ==
  /\ Len(issues) = 1
  /\ issues[1].type = "invalid_daily_cost"
  /\ issues[1].daily_cost_value = Token
  /\ resources_with_issues = 1

ValidExamples ==
  {<<"\"", "5", ".", "5", "\"">>, <<"5", "0">>, <<"'", "5", ".", "0", "'">>}

InvalidExamples == {<<"0">>, <<"-", "5">>, <<"\"", "a", "a", "a", "\"">>, <<>>}

\* C5 as stated: the token is accepted exactly when, with at most one layer of
\* surrounding quotes removed, it parses as a number greater than zero; any
\* other token is rejected with an invalid_daily_cost issue carrying the raw
\* token.
C5_SingleLayer ==
  Validated =>
    /\ Accepted <=> parse_float(strip_one_layer(Token)).positive
    /\ ~Accepted => Rejected

\* C5, amended: the token is accepted exactly when, with every leading and
\* trailing quote character removed, it parses as a number greater than zero;
\* any other token (empty, non-numeric, zero, negative) is rejected with an
\* invalid_daily_cost issue carrying the raw token.
C5_AllQuotesStripped ==
  Validated =>
    /\ resources_checked = 1
    /\ Accepted <=> parse_float(AllQuotesRemoved(Token)).positive
    /\ ~Accepted => Rejected
    /\ Token \in ValidExamples => Accepted
    /\ Token \in InvalidExamples => Rejected

C5_Witness ==
  /\ Validated
  /\ Token = <<"\"", "'", "5", "'", "\"">>
  /\ Accepted

\* ------------------------------------------------ claims on one file's text
Content == fs[1].content
Matches == FindIter(Content, 1)
Extracted == pc \notin {"main", "scan", "parse"}

IsAssignmentAt(body, p, j, k) ==
  /\ body[p] = "D"
  /\ p < j /\ j < k /\ k <= Len(body)
  /\ \A i \in (p + 1)..(j - 1) : body[i] \in Whitespace
  /\ body[j] = "="
  /\ \A i \in (j + 1)..(k - 1) : body[i] \in Whitespace
  /\ body[k] \notin Whitespace

HasAssignment(body) ==
  \E p, j, k \in 1..Len(body) : IsAssignmentAt(body, p, j, k)

\* the token of the leftmost assignment of a body that has one
AssignedToken(body) ==
  LET starts == {p \in 1..Len(body) :
                   \E j, k \in 1..Len(body) : IsAssignmentAt(body, p, j, k)}
      p0 == CHOOSE p \in starts : \A q \in starts : p <= q
      k0 == CHOOSE k \in 1..Len(body) :
              \E j \in 1..Len(body) : IsAssignmentAt(body, p0, j, k)
      e0 == CHOOSE e \in k0..Len(body) :
              /\ \A i \in k0..e : body[i] \notin Whitespace
              /\ e = Len(body) \/ body[e + 1] \in Whitespace
  IN  SubSeq(body, k0, e0)

\* the text from after the brace at index open up to the first closing brace
FirstClose(text, open) ==
  CHOOSE c \in (open + 1)..Len(text) :
    text[c] = "}" /\ \A i \in (open + 1)..(c - 1) : text[i] # "}"

BodyOf(text, open) == SubSeq(text, open + 1, FirstClose(text, open) - 1)

RaisedIssues == SelectSeq(issues, IsResourceIssue)
FlaggedResources == SelectSeq(all_resources, Flagged)

\* C9: the captured body of every matched block is the text from the opening
\* brace up to, not including, the first closing brace after it; daily_cost is
\* seen exactly when it is assigned in that text, and a block whose assignment
\* comes only later is flagged missing_daily_cost.
C9_FirstClosingBrace ==
  /\ Extracted =>
       /\ Len(all_resources) = Len(Matches)
       /\ \A n \in 1..Len(all_resources) :
            LET open == Matches[n].open
                body == BodyOf(Content, open)
                r == all_resources[n]
            IN  /\ Content[open] = "{"
                /\ \E c \in (open + 1)..Len(Content) : Content[c] = "}"
                /\ r.resource_block = StripWs(body)
                /\ r.has_daily_cost = HasAssignment(body)
                /\ r.has_daily_cost => r.daily_cost_value = AssignedToken(body)
  /\ Validated =>
       /\ Len(RaisedIssues) = Len(FlaggedResources)
       /\ \A n \in 1..Len(RaisedIssues) :
            ~FlaggedResources[n].has_daily_cost =>
              RaisedIssues[n].type = "missing_daily_cost"

C9_Witness ==
  /\ Validated
  /\ Len(all_resources) = 1
  /\ ~all_resources[1].has_daily_cost
  /\ LET close == FirstClose(Content, Matches[1].open)
     IN  /\ \E i \in (Matches[1].open + 1)..(close - 1) : Content[i] = "{"
         /\ \E c \in (close + 1)..Len(Content) :
              /\ Content[c] = "}"
              /\ HasAssignment(SubSeq(Content, close + 1, c - 1))
  /\ Len(issues) = 1
  /\ issues[1].type = "missing_daily_cost"

DeclaredAt(text, p) ==
  LET q == SkipWs(text, p + 1)
  IN  /\ text[p] = "H"
      /\ q <= Len(text)
      /\ text[q] = "{"
      /\ \E c \in (q + 1)..Len(text) : text[c] = "}"

\* the bodies of the blocks of a text, left to right, blocks not overlapping
RECURSIVE DeclaredBodies(_, _)
DeclaredBodies(text, p) ==
  IF p > Len(text) THEN <<>>
  ELSE IF DeclaredAt(text, p)
       THEN <<BodyOf(text, SkipWs(text, p + 1))>>
            \o DeclaredBodies(text, FirstClose(text, SkipWs(text, p + 1)) + 1)
       ELSE DeclaredBodies(text, p + 1)

\* C4: every coder_metadata block of the file whose body holds no daily_cost
\* assignment, the empty body included, is counted in resources_checked and
\* gets exactly one issue, of type missing_daily_cost, never invalid_daily_cost.
C4_MissingAlwaysFlagged ==
  Validated =>
    LET bodies == DeclaredBodies(Content, 1)
        without == CountWhere(bodies, LAMBDA b : ~HasAssignment(b))
    IN  /\ resources_checked = Len(bodies)
        /\ CountWhere(issues, LAMBDA i : i.type = "missing_daily_cost") = without
        /\ CountWhere(issues, LAMBDA i : i.type = "invalid_daily_cost")
             <= Len(bodies) - without

\* the same, for the files in which no block has an empty body
C4_NonEmptyBodies ==
  (\A n \in 1..Len(DeclaredBodies(Content, 1)) : DeclaredBodies(Content, 1)[n] # <<>>)
    => C4_MissingAlwaysFlagged

====
